---------------------------- MODULE Spec2Model ----------------------------
(***************************************************************************)
(* Handlers of the Gemini proxy.  Streaming relays:                        *)
(*                                                                         *)
(*   "part000" : src/unnamed/part_000  (Node handler, sendSSE helper)      *)
(*   "stream"  : src/api/stream.js     (Node handler, bare res.write)      *)
(*   "edge"    : src/api/generate.js   (edge handler, TransformStream)     *)
(*                                                                         *)
(* Non-streaming handlers (variable gen):                                  *)
(*                                                                         *)
(*   "part001"  : src/unnamed/part_001                                     *)
(*   "generate" : src/api/generate.js, second handler                      *)
(*                                                                         *)
(* The upstream body is a byte sequence, delivered in chunks cut at        *)
(* arbitrary byte positions.  Text is a sequence of symbols: a symbol is   *)
(* one character, except "data:" (five characters, never cut) and the      *)
(* symbol p of a JSON object  { p } , which stands for the members of the  *)
(* object (PayloadOf gives what they hold).                                *)
(***************************************************************************)
EXTENDS Naturals, Integers, Sequences, FiniteSets, TLC

VARIABLES
    variant,    \* which handler serves the request
    pc,         \* the handler's position (its pending await)
    upstream,   \* outcome of the fetch: "pending", "ok", "notok", "neterr"
    status,     \* HTTP status of the upstream response (0: none yet)
    body,       \* bytes of the upstream body
    pos,        \* number of bytes of body the reader has delivered
    pending,    \* bytes held by the streaming TextDecoder
    buffer,     \* the handler's `buffer`: text not yet ended by "\n"
    res,        \* the downstream response (or the edge stream's controller)
    reply,      \* kind of response the client gets: "sse" or "json500"
    obs,        \* history: lines handed to the decoder, terminal events
    pair,       \* two relay operations served concurrently (see RelayRead)
    req,        \* the request: method, body fields, configured API key
    gen         \* a non-streaming generate handler (see GenValidate)

vars == <<variant, pc, upstream, status, body, pos, pending, buffer, res, reply,
          obs, pair, req, gen>>

(***************************************************************************)
(* Bounds                                                                  *)
(***************************************************************************)
MaxLines == 2
MaxShapeLines == 1

(***************************************************************************)
(* Characters, bytes                                                       *)
(***************************************************************************)
NL == "\n"
SP == " "
EACUTE == "U"            \* a character whose UTF-8 encoding has two bytes
LEAD == "C3"             \* its lead byte
CONT == "A9"             \* its continuation byte
FFFD == "?"              \* the replacement character
Whitespace == {SP, NL, "\r", "\t"}
DataPrefix == <<"data:", SP>>          \* "data: "
DoneLiteral == <<"[DONE]">>

\* number of characters a symbol stands for
CharWidth(c) == IF c = "data:" THEN 5 ELSE 1

RECURSIVE Encode(_)
Encode(text) ==
    IF text = <<>> THEN <<>>
    ELSE (IF Head(text) = EACUTE THEN <<LEAD, CONT>> ELSE <<Head(text)>>)
         \o Encode(Tail(text))

\* TextDecoder.decode(bytes, {stream}) with `held` the bytes kept from the
\* previous call: [text, held].  Without stream, an incomplete sequence at
\* the end is replaced instead of held.  `i` is the next byte, `acc` the text
\* decoded so far.
RECURSIVE DecodeAt(_, _, _, _, _)
DecodeAt(bytes, i, held, stream, acc) ==
    IF i > Len(bytes) THEN
        IF held = <<>> \/ stream THEN [text |-> acc, held |-> held]
        ELSE [text |-> Append(acc, FFFD), held |-> <<>>]
    ELSE IF held # <<>> THEN
        IF bytes[i] = CONT
        THEN DecodeAt(bytes, i + 1, <<>>, stream, Append(acc, EACUTE))
        ELSE DecodeAt(bytes, i, <<>>, stream, Append(acc, FFFD))
    ELSE IF bytes[i] = LEAD THEN DecodeAt(bytes, i + 1, <<LEAD>>, stream, acc)
    ELSE IF bytes[i] = CONT
        THEN DecodeAt(bytes, i + 1, <<>>, stream, Append(acc, FFFD))
    ELSE DecodeAt(bytes, i + 1, <<>>, stream, Append(acc, bytes[i]))

DecodeFrom(bytes, held, stream) == DecodeAt(bytes, 1, held, stream, <<>>)

(***************************************************************************)
(* String operations of the handlers                                       *)
(***************************************************************************)
\* s.split("\n"): always at least one element, the last one the text after
\* the last "\n".
Split(s) ==
    LET cuts == {i \in 1..Len(s) : s[i] = NL}
        n == Cardinality(cuts)
        \* position of the j-th "\n"; 0 before the first, Len(s)+1 after the last
        at(j) == IF j = 0 THEN 0
                 ELSE IF j > n THEN Len(s) + 1
                 ELSE CHOOSE i \in cuts : Cardinality({c \in cuts : c <= i}) = j
    IN  [j \in 1..(n + 1) |-> SubSeq(s, at(j - 1) + 1, at(j) - 1)]

RECURSIVE TrimStart(_)
TrimStart(s) ==
    IF s # <<>> /\ Head(s) \in Whitespace THEN TrimStart(Tail(s)) ELSE s

RECURSIVE TrimEnd(_)
TrimEnd(s) ==
    IF s # <<>> /\ s[Len(s)] \in Whitespace
    THEN TrimEnd(SubSeq(s, 1, Len(s) - 1)) ELSE s

Trim(s) == TrimEnd(TrimStart(s))

StartsWith(s, p) == Len(s) >= Len(p) /\ SubSeq(s, 1, Len(p)) = p

\* s.slice(n), n counted in characters
RECURSIVE Slice(_, _)
Slice(s, n) ==
    IF n = 0 \/ s = <<>> THEN s
    ELSE Slice(Tail(s), IF n > CharWidth(Head(s)) THEN n - CharWidth(Head(s)) ELSE 0)

Front(s) == SubSeq(s, 1, Len(s) - 1)

Last(s) == s[Len(s)]

(***************************************************************************)
(* Upstream payloads                                                       *)
(***************************************************************************)
PayloadSyms == {"H", "T", "F", "E", EACUTE}

\* isNull: the value is null; hasCand: candidates && candidates[0];
\* hasParts0: content?.parts && parts[0]; text: parts[0].text || "";
\* hasErr: parsed.error; errMsg: parsed.error.message || ""
NoPayload ==
    [isNull |-> FALSE, hasCand |-> FALSE, hasParts0 |-> FALSE, text |-> "",
     finish |-> "NONE", hasErr |-> FALSE, errMsg |-> ""]

\* What the object { p } holds.
PayloadOf(p) ==
    CASE p = "H"    -> [NoPayload EXCEPT !.hasCand = TRUE, !.hasParts0 = TRUE,
                                         !.text = "Hi"]
      [] p = "T"    -> [NoPayload EXCEPT !.hasCand = TRUE, !.hasParts0 = TRUE,
                                         !.text = " there", !.finish = "STOP"]
      [] p = EACUTE -> [NoPayload EXCEPT !.hasCand = TRUE, !.hasParts0 = TRUE,
                                         !.text = EACUTE]
      [] p = "S"    -> [NoPayload EXCEPT !.hasCand = TRUE, !.finish = "STOP"]
      [] p = "M"    -> [NoPayload EXCEPT !.hasCand = TRUE,
                                         !.finish = "MAX_TOKENS"]
      [] p = "F"    -> [NoPayload EXCEPT !.hasCand = TRUE, !.finish = "SAFETY"]
      [] p = "E"    -> [NoPayload EXCEPT !.hasErr = TRUE, !.errMsg = "quota"]
      \* text together with a finish indicator
      [] p = "G"    -> [NoPayload EXCEPT !.hasCand = TRUE, !.hasParts0 = TRUE,
                                         !.text = "no", !.finish = "SAFETY"]
      [] p = "L"    -> [NoPayload EXCEPT !.hasCand = TRUE, !.hasParts0 = TRUE,
                                         !.text = "end", !.finish = "MAX_TOKENS"]
      \* {} and {"candidates":[]}
      [] p \in {"O", "A"} -> NoPayload
      \* a candidate without content, content without parts, parts: []
      [] p \in {"K", "Q", "R"} -> [NoPayload EXCEPT !.hasCand = TRUE]
      \* a part without text
      [] p = "P"    -> [NoPayload EXCEPT !.hasCand = TRUE, !.hasParts0 = TRUE]
      \* an error object without message
      [] p = "N"    -> [NoPayload EXCEPT !.hasErr = TRUE]
      [] OTHER      -> NoPayload

\* the payloads whose fields are absent in one way or another
ShapeSyms == {"O", "A", "K", "Q", "R", "P", "N"}

\* text together with a finish indicator
MixedSyms == {"T", "G", "L"}

\* what may stand between the braces of an object
Members == PayloadSyms \cup ShapeSyms \cup MixedSyms \cup {"S", "M"}

NullLiteral == <<"null">>

\* JSON.parse(jsonStr): [ok, value]; ok = FALSE stands for the SyntaxError.
JSONparse(s) ==
    IF Len(s) = 3 /\ s[1] = "{" /\ s[3] = "}" /\ s[2] \in Members
    THEN [ok |-> TRUE, value |-> PayloadOf(s[2])]
    ELSE IF s = NullLiteral
    THEN [ok |-> TRUE, value |-> [NoPayload EXCEPT !.isNull = TRUE]]
    ELSE [ok |-> FALSE, value |-> NoPayload]

(***************************************************************************)
(* Downstream frames: what `data: <...>\n\n` carries                       *)
(***************************************************************************)
TokenFrame(t) == [kind |-> "token", text |-> t, safety |-> FALSE]
ErrorFrame(m) == [kind |-> "error", text |-> m, safety |-> FALSE]
SafetyFrame ==
    [kind |-> "error", text |-> "Response blocked by safety filters",
     safety |-> TRUE]
DoneFrame == [kind |-> "done", text |-> "[DONE]", safety |-> FALSE]

(***************************************************************************)
(* The response object                                                     *)
(***************************************************************************)
\* out: the frames written; sink: the state of the connection to the client
\* ("ok"; "gone": the client has disconnected and writes are discarded;
\* "broken": res.write raises an error); threw: an exception is propagating,
\* so the statements that follow are not executed until a catch is reached.
NewRes ==
    [out |-> <<>>, writableEnded |-> FALSE, endCalls |-> 0, lateWrites |-> 0,
     sink |-> "ok", lostWrites |-> 0, threw |-> FALSE, plain |-> <<>>]

\* a throw statement, or an operation that raises
Throw(r) == [r EXCEPT !.threw = TRUE]

\* entry of a catch block
Caught(r) == [r EXCEPT !.threw = FALSE]

\* res.write(frame)
resWrite(r, frame) ==
    IF r.threw THEN r
    ELSE IF r.sink = "broken" THEN Throw(r)
    ELSE IF r.writableEnded THEN [r EXCEPT !.lateWrites = @ + 1]
    ELSE IF r.sink = "gone" THEN [r EXCEPT !.lostWrites = @ + 1]
    ELSE [r EXCEPT !.out = Append(@, frame)]

\* res.end()
resEnd(r) ==
    IF r.threw THEN r
    ELSE [r EXCEPT !.writableEnded = TRUE, !.endCalls = @ + 1]

\* sendSSE(res, data) of part_000: the write sits in a try/catch
sendSSE(r, frame) ==
    IF r.threw THEN r
    ELSE IF r.writableEnded THEN r
    ELSE Caught(resWrite(r, frame))


(***************************************************************************)
(* Event decoder of the Node handlers: the payload of a line, if any       *)
(***************************************************************************)
Skip == [kind |-> "skip", value |-> NoPayload]

decode(line) ==
    LET trimmedLine == Trim(line) IN
    IF trimmedLine = <<>> THEN Skip
    ELSE IF ~StartsWith(trimmedLine, DataPrefix) THEN Skip
    ELSE LET jsonStr == Trim(Slice(trimmedLine, 6)) IN
         IF jsonStr = <<>> THEN Skip
         ELSE LET parsed == JSONparse(jsonStr) IN
              IF parsed.ok THEN [kind |-> "payload", value |-> parsed.value]
              ELSE Skip

(***************************************************************************)
(* part_000: extraction and the per-chunk loop                             *)
(***************************************************************************)
extractToken000(r, p) ==
    IF p.hasCand /\ p.hasParts0 /\ p.text # ""
    THEN sendSSE(r, TokenFrame(p.text)) ELSE r

extractFinish000(r, p) ==
    LET r1 == IF p.hasCand /\ p.finish \in {"STOP", "MAX_TOKENS"}
              THEN sendSSE(r, DoneFrame) ELSE r
    IN  IF p.hasCand /\ p.finish = "SAFETY"
        THEN sendSSE(sendSSE(r1, SafetyFrame), DoneFrame) ELSE r1

extractError000(r, p) ==
    IF p.hasErr
    THEN sendSSE(sendSSE(r, ErrorFrame(IF p.errMsg # "" THEN p.errMsg
                                       ELSE "Gemini error")), DoneFrame)
    ELSE r

extract000(r, p) == extractError000(extractFinish000(extractToken000(r, p), p), p)

processLine000(r, line) ==
    LET d == decode(line) IN
    IF d.kind = "payload" THEN Caught(extract000(r, d.value)) ELSE r

\* the remaining buffer after the loop, then the final DONE
flush000(r, buf) ==
    LET r1 == IF Trim(buf) # <<>> /\ StartsWith(buf, DataPrefix)
              THEN LET parsed == JSONparse(Trim(Slice(buf, 6)))
                       p == parsed.value
                   IN  IF parsed.ok /\ p.hasCand /\ p.hasParts0 /\ p.text # ""
                       THEN sendSSE(r, TokenFrame(p.text)) ELSE r
              ELSE r
    IN  sendSSE(r1, DoneFrame)

\* `Gemini API error: ${geminiResponse.status}`
apiErrorMessage000(st) ==
    IF st = 503 THEN "Gemini API error: 503" ELSE "Gemini API error: 429"

handleNotOk000(r, st) ==
    resEnd(sendSSE(sendSSE(r, ErrorFrame(apiErrorMessage000(st))), DoneFrame))

\* the catch block without its error event
catch000_DoneOnly(r, message) == sendSSE(Caught(r), DoneFrame)

catch000(r, message) ==
    sendSSE(sendSSE(Caught(r), ErrorFrame(message)), DoneFrame)

\* the finally block without its writableEnded test
finally000_Unguarded(r) == resEnd(r)

finally000(r) == IF ~r.writableEnded THEN resEnd(r) ELSE r

(***************************************************************************)
(* stream.js: extraction and the per-chunk loop                            *)
(***************************************************************************)
\* parsed.candidates raises a TypeError when parsed is null
extractStream(r, p) ==
    IF p.isNull THEN Throw(r)
    ELSE IF p.hasCand
    THEN LET r1 == IF p.hasParts0 /\ p.text # ""
                   THEN resWrite(r, TokenFrame(p.text)) ELSE r
         IN  IF p.finish = "STOP" THEN resWrite(r1, DoneFrame) ELSE r1
    ELSE r

\* the extraction outside the try/catch around JSON.parse
processLineStream_Uncaught(r, line) ==
    LET d == decode(line) IN
    IF d.kind = "payload" THEN extractStream(r, d.value) ELSE r

\* the try/catch around JSON.parse also encloses the extraction and its writes
processLineStream(r, line) ==
    LET d == decode(line) IN
    IF d.kind = "payload" THEN Caught(extractStream(r, d.value)) ELSE r

\* the final DONE written after the response is ended
completeStream_EndFirst(r) == resWrite(resEnd(r), DoneFrame)

completeStream(r) == resEnd(resWrite(r, DoneFrame))

\* "Gemini error: " + geminiResponse.status
apiErrorMessageStream(st) ==
    IF st = 503 THEN "Gemini error: 503" ELSE "Gemini error: 429"

\* the error path without its terminal marker
handleNotOkStream_NoDone(r, st) ==
    resEnd(resWrite(r, ErrorFrame(apiErrorMessageStream(st))))

handleNotOkStream(r, st) ==
    resEnd(resWrite(resWrite(r, ErrorFrame(apiErrorMessageStream(st))), DoneFrame))

catchStream(r, message) ==
    resEnd(resWrite(resWrite(Caught(r), ErrorFrame(message)), DoneFrame))

\* the outer try of stream.js: an exception raised in it reaches the catch
tryStream(r) == IF r.threw THEN catchStream(r, "write failed") ELSE r

(***************************************************************************)
(* Both Node handlers                                                      *)
(***************************************************************************)
Node == {"part000", "stream"}

processLine(v, r, line) ==
    IF v = "part000" THEN processLine000(r, line) ELSE processLineStream(r, line)

\* only the last complete line of a chunk processed
processLines_LastOnly(v, r, lines) ==
    IF lines = <<>> THEN r ELSE processLine(v, r, Last(lines))

RECURSIVE processLines(_, _, _)
processLines(v, r, lines) ==
    IF lines = <<>> \/ r.threw THEN r
    ELSE processLines(v, processLine(v, r, Head(lines)), Tail(lines))

\* the incomplete line dropped instead of kept
nextBuffer_Dropped(lines) == <<>>

\* buffer = lines.pop() || ""
nextBuffer(lines) == Last(lines)

\* the catch block, and for part_000 the finally block after it
onException(v, r, message) ==
    IF v = "part000" THEN finally000(catch000(r, message))
    ELSE catchStream(r, message)

\* a non-success upstream status, after its text has been read
onNotOk(v, r, st) ==
    IF v = "part000" THEN finally000(handleNotOk000(r, st))
    ELSE tryStream(handleNotOkStream(r, st))

\* reader.read() returned done
onDone(v, r, buf) ==
    IF v = "part000" THEN finally000(flush000(r, buf))
    ELSE tryStream(completeStream(r))

(***************************************************************************)
(* generate.js (edge): TransformStream.transform, one call per chunk       *)
(***************************************************************************)
RECURSIVE SelectNonBlank(_)
SelectNonBlank(lines) ==
    IF lines = <<>> THEN <<>>
    ELSE (IF Trim(Head(lines)) # <<>> THEN <<Head(lines)>> ELSE <<>>)
         \o SelectNonBlank(Tail(lines))

transformLine(r, line) ==
    IF ~StartsWith(line, DataPrefix) THEN r
    ELSE LET jsonStr == Trim(Slice(line, 6)) IN
         IF jsonStr = <<>> \/ jsonStr = DoneLiteral THEN resWrite(r, DoneFrame)
         ELSE LET parsed == JSONparse(jsonStr)
                  p == parsed.value
              IN  IF parsed.ok /\ p.hasCand
                  THEN LET r1 == IF p.hasParts0 /\ p.text # ""
                                 THEN resWrite(r, TokenFrame(p.text)) ELSE r
                       IN  IF p.finish = "STOP" THEN resWrite(r1, DoneFrame)
                           ELSE r1
                  ELSE r

RECURSIVE transformLines(_, _)
transformLines(r, lines) ==
    IF lines = <<>> THEN r
    ELSE transformLines(transformLine(r, Head(lines)), Tail(lines))

transform(r, chunk) ==
    LET text == DecodeFrom(chunk, <<>>, FALSE).text
    IN  transformLines(r, SelectNonBlank(Split(text)))

\* `Gemini API error: ${geminiResponse.status}`
apiErrorMessageEdge(st) ==
    IF st = 503 THEN "Gemini API error: 503" ELSE "Gemini API error: 429"

\* a JSON response with an error message
ErrorResponse(st, message) ==
    [status |-> st, ok |-> "none", reply |-> <<>>, error |-> message]

\* the catch block answering with an event stream, as the Node handlers do
catchEdge_AsStream(r, message) ==
    resWrite(resWrite(r, ErrorFrame(message)), DoneFrame)

\* the catch block of the edge handler: one JSON response with status 500
catchEdge(r, message) ==
    [r EXCEPT !.plain = Append(@, ErrorResponse(500, message))]

(***************************************************************************)
(* Upstream bodies                                                         *)
(***************************************************************************)
DataLine(p) == DataPrefix \o <<"{", p, "}">>

LineKinds ==
    {DataLine(p) : p \in PayloadSyms} \cup {<<>>}

RECURSIVE JoinNL(_)
JoinNL(ls) == IF ls = <<>> THEN <<>> ELSE Head(ls) \o <<NL>> \o JoinNL(Tail(ls))

LineSeqs == UNION {[1..n -> LineKinds] : n \in 0..MaxLines}

\* every line ended by "\n", or the last line left unterminated
Texts == {JoinNL(ls) : ls \in LineSeqs}
         \cup {Front(JoinNL(ls)) : ls \in LineSeqs \ {<<>>}}

Bodies == {Encode(t) : t \in Texts}

\* the same for other kinds of lines
BodiesOf(kinds, n) ==
    LET seqs == UNION {[1..m -> kinds] : m \in 0..n}
    IN  {Encode(JoinNL(ls)) : ls \in seqs}
        \cup {Encode(Front(JoinNL(ls))) : ls \in seqs \ {<<>>}}

\* lines the decoder has to pass over, among good ones
JunkLine == DataPrefix \o <<"{", "H">>             \* data: {"candid
DoneLine == DataPrefix \o DoneLiteral              \* data: [DONE]
EmptyDataLine == DataPrefix                        \* data: with no payload
EventLine == <<"event:", SP, "x">>                 \* event: x
CommentLine == <<":", "x">>                        \* : x

JunkKinds ==
    {DataLine("H"), JunkLine, DoneLine, EmptyDataLine, EventLine, CommentLine,
     <<>>}

JunkBodies == BodiesOf(JunkKinds, MaxLines)

\* payloads with absent fields, and text together with a finish indicator
ShapeKinds ==
    {DataLine(p) : p \in ShapeSyms \cup MixedSyms} \cup {DataPrefix \o NullLiteral}

ShapeBodies == BodiesOf(ShapeKinds, MaxShapeLines)

Statuses == {503, 429}

Variants == Node \cup {"edge"}

(***************************************************************************)
(* History                                                                 *)
(***************************************************************************)
\* the terminal events of section 4.4: a finish indicator or an error object
Terminal(line) ==
    LET d == decode(line) IN
    /\ d.kind = "payload"
    /\ \/ d.value.hasCand /\ d.value.finish \in {"STOP", "MAX_TOKENS", "SAFETY"}
       \/ d.value.hasErr

NewObs == [seen |-> <<>>, joined |-> FALSE, term |-> FALSE, after |-> FALSE,
           entered |-> FALSE, exit |-> "none"]

\* a chunk has been read and its complete lines processed; `held` tells
\* whether text or bytes of an earlier chunk were still pending.  `after`
\* records work after a terminal event: a further chunk read, or a further
\* payload extracted from a later line of the same chunk.
Observe(o, lines, held) ==
    [o EXCEPT !.seen = @ \o lines,
              !.joined = @ \/ (held /\ lines # <<>>),
              !.term = @ \/ \E i \in 1..Len(lines) : Terminal(lines[i]),
              !.after = @ \/ o.term
                          \/ \E i, j \in 1..Len(lines) :
                               /\ i < j
                               /\ Terminal(lines[i])
                               /\ decode(lines[j]).kind = "payload"]

(***************************************************************************)
(* The handlers as a state machine                                         *)
(***************************************************************************)
NoPair == <<>>

\* a request that passes every test before the upstream call
PostRequest ==
    [method |-> "POST", prompt |-> "string", alt |-> FALSE, key |-> TRUE,
     max_tokens |-> [t |-> "absent"]]

NoGen == [pc |-> "off"]

\* a request arrives at one of the handlers V; the upstream will send one of B
InitWith(V, B) ==
    /\ variant \in V
    /\ body \in B
    /\ pc = "fetch"
    /\ upstream = "pending"
    /\ status = 0
    /\ pos = 0
    /\ pending = <<>>
    /\ buffer = <<>>
    /\ res = NewRes
    /\ reply = IF variant \in Node THEN "sse" ELSE "none"
    /\ obs = NewObs
    /\ pair = NoPair
    /\ req = PostRequest
    /\ gen = NoGen

Init == InitWith(Variants, Bodies)

\* await fetch(...) resolves with a success status
FetchOk ==
    /\ pc = "fetch"
    /\ upstream' = "ok"
    /\ status' = 200
    /\ pc' = "read"
    /\ reply' = "sse"
    /\ obs' = [obs EXCEPT !.entered = TRUE]
    /\ UNCHANGED <<req, gen, pair, variant, body, pos, pending, buffer, res>>

\* await fetch(...) resolves with a non-success status
FetchNotOk ==
    /\ pc = "fetch"
    /\ \E st \in Statuses : status' = st
    /\ upstream' = "notok"
    /\ pc' = "errorText"
    /\ UNCHANGED <<req, gen, pair, variant, body, pos, pending, buffer, res, reply, obs>>

\* await fetch(...) rejects
FetchThrows ==
    /\ pc = "fetch"
    /\ upstream' = "neterr"
    /\ pc' = "returned"
    /\ IF variant \in Node
       THEN res' = onException(variant, res, "fetch failed") /\ reply' = reply
       ELSE res' = catchEdge(res, "fetch failed") /\ reply' = "json500"
    /\ obs' = [obs EXCEPT !.exit = "exception"]
    /\ UNCHANGED <<req, gen, pair, variant, status, body, pos, pending, buffer>>

\* await geminiResponse.text() resolves (part_000: or rejects and is caught)
ErrorText ==
    /\ pc = "errorText"
    /\ pc' = "returned"
    /\ IF variant \in Node
       THEN res' = onNotOk(variant, res, status) /\ reply' = reply
       ELSE res' = catchEdge(res, apiErrorMessageEdge(status))
            /\ reply' = "json500"
    /\ obs' = [obs EXCEPT !.exit = "notok"]
    /\ UNCHANGED <<req, gen, pair, variant, upstream, status, body, pos, pending, buffer>>

\* await geminiResponse.text() rejects where nothing catches it locally
ErrorTextThrows ==
    /\ pc = "errorText"
    /\ variant # "part000"
    /\ pc' = "returned"
    /\ IF variant = "stream"
       THEN res' = catchStream(res, "body failed") /\ reply' = reply
       ELSE res' = catchEdge(res, "body failed") /\ reply' = "json500"
    /\ obs' = [obs EXCEPT !.exit = "exception"]
    /\ UNCHANGED <<req, gen, pair, variant, upstream, status, body, pos, pending, buffer>>

\* await reader.read() yields the next k bytes; the loop body runs
ReadChunk ==
    /\ pc = "read"
    /\ variant \in Node
    /\ \E k \in 1..(Len(body) - pos) :
         LET value == SubSeq(body, pos + 1, pos + k)
             dec == DecodeFrom(value, pending, TRUE)
             lines == Split(buffer \o dec.text)
             r1 == processLines(variant, res, Front(lines))
             o1 == Observe(obs, Front(lines), buffer # <<>> \/ pending # <<>>)
         IN  /\ pos' = pos + k
             /\ pending' = dec.held
             /\ buffer' = nextBuffer(lines)
             \* an exception that leaves the loop body reaches the catch block
             /\ IF r1.threw
                THEN /\ pc' = "returned"
                     /\ res' = onException(variant, r1, "TypeError")
                     /\ obs' = [o1 EXCEPT !.exit = "exception"]
                ELSE /\ pc' = pc
                     /\ res' = r1
                     /\ obs' = o1
    /\ UNCHANGED <<req, gen, pair, variant, upstream, status, body, reply>>

\* await reader.read() yields done
ReadDone ==
    /\ pc = "read"
    /\ variant \in Node
    /\ pos = Len(body)
    /\ pc' = "returned"
    /\ res' = onDone(variant, res, buffer)
    /\ obs' = [obs EXCEPT !.exit = "done"]
    /\ UNCHANGED <<req, gen, pair, variant, upstream, status, body, pos, pending, buffer, reply>>

\* await reader.read() rejects
ReadThrows ==
    /\ pc = "read"
    /\ variant \in Node
    /\ pc' = "returned"
    /\ res' = onException(variant, res, "terminated")
    /\ obs' = [obs EXCEPT !.exit = "exception"]
    /\ UNCHANGED <<req, gen, pair, variant, upstream, status, body, pos, pending, buffer, reply>>

\* the piped body delivers the next k bytes to transform
TransformChunk ==
    /\ pc = "read"
    /\ variant = "edge"
    /\ \E k \in 1..(Len(body) - pos) :
         /\ pos' = pos + k
         /\ res' = transform(res, SubSeq(body, pos + 1, pos + k))
    /\ UNCHANGED <<req, gen, pair, variant, pc, upstream, status, body, pending, buffer, reply, obs>>

\* the piped body ends: the transformed stream is closed
PipeCloses ==
    /\ pc = "read"
    /\ variant = "edge"
    /\ pos = Len(body)
    /\ pc' = "returned"
    /\ res' = resEnd(res)
    /\ obs' = [obs EXCEPT !.exit = "done"]
    /\ UNCHANGED <<req, gen, pair, variant, upstream, status, body, pos, pending, buffer, reply>>

\* the piped body fails: the transformed stream is errored
PipeErrors ==
    /\ pc = "read"
    /\ variant = "edge"
    /\ pc' = "returned"
    /\ res' = resEnd(res)
    /\ obs' = [obs EXCEPT !.exit = "exception"]
    /\ UNCHANGED <<req, gen, pair, variant, upstream, status, body, pos, pending, buffer, reply>>

Next ==
    \/ FetchOk
    \/ FetchNotOk
    \/ FetchThrows
    \/ ErrorText
    \/ ErrorTextThrows
    \/ ReadChunk
    \/ ReadDone
    \/ ReadThrows
    \/ TransformChunk
    \/ PipeCloses
    \/ PipeErrors

Spec == Init /\ [][Next]_vars

\* the upstream sends lines the decoder has to pass over
InitJunk == InitWith(Variants, JunkBodies)

SpecJunk == InitJunk /\ [][Next]_vars

\* the upstream sends payloads with absent fields
InitShapes == InitWith(Variants, ShapeBodies)

SpecShapes == InitShapes /\ [][Next]_vars

\* the client goes away: the socket is destroyed under the response
ClientDisconnect ==
    /\ pc \in {"fetch", "errorText", "read"}
    /\ variant \in Node
    /\ res.sink = "ok"
    /\ res' = [res EXCEPT !.sink = "gone"]
    /\ UNCHANGED <<req, gen, pair, variant, pc, upstream, status, body, pos, pending,
                   buffer, reply, obs>>

\* from here on a write to the response raises an error
SinkBreaks ==
    /\ pc \in {"fetch", "errorText", "read"}
    /\ variant \in Node
    /\ res.sink = "ok"
    /\ res' = [res EXCEPT !.sink = "broken"]
    /\ UNCHANGED <<req, gen, pair, variant, pc, upstream, status, body, pos, pending,
                   buffer, reply, obs>>

NextEnv ==
    \/ Next
    \/ ClientDisconnect
    \/ SinkBreaks

SpecEnv == Init /\ [][NextEnv]_vars

(***************************************************************************)
(* Two relay operations served by one process: each invocation of the      *)
(* handler has its own reader, decoder, buffer and res                     *)
(***************************************************************************)
Relays == {1, 2}

PairBodies ==
    {Encode(DataLine("H") \o <<NL>>),
     Encode(DataLine("T") \o <<NL>> \o DataLine(EACUTE)),
     Encode(DataLine(EACUTE) \o <<NL>> \o DataLine("E") \o <<NL>>)}

NewRelay(b) ==
    [body |-> b, pos |-> 0, pending |-> <<>>, buffer |-> <<>>, res |-> NewRes,
     done |-> FALSE]

\* every relay working on the locals of the first invocation
own_Shared(p, i) == p[1]

\* the locals of invocation i
own(p, i) == p[i]

InitPair ==
    /\ variant \in Node
    /\ pc = "pair"
    /\ upstream = "ok"
    /\ status = 200
    /\ body = <<>>
    /\ pos = 0
    /\ pending = <<>>
    /\ buffer = <<>>
    /\ res = NewRes
    /\ reply = "sse"
    /\ obs = NewObs
    /\ req = PostRequest
    /\ gen = NoGen
    /\ pair \in [Relays -> {NewRelay(b) : b \in PairBodies}]

\* relay i: await reader.read() yields the next k bytes; the loop body runs
RelayRead(i) ==
    /\ pc = "pair"
    /\ ~pair[i].done
    /\ \E k \in 1..(Len(pair[i].body) - pair[i].pos) :
         LET me == own(pair, i)
             value == SubSeq(pair[i].body, pair[i].pos + 1, pair[i].pos + k)
             dec == DecodeFrom(value, me.pending, TRUE)
             lines == Split(me.buffer \o dec.text)
         IN  pair' = [pair EXCEPT ![i] =
                        [@ EXCEPT !.pos = @ + k,
                                  !.pending = dec.held,
                                  !.buffer = nextBuffer(lines),
                                  !.res = processLines(variant, me.res,
                                                       Front(lines))]]
    /\ UNCHANGED <<req, gen, variant, pc, upstream, status, body, pos, pending, buffer,
                   res, reply, obs>>

\* relay i: await reader.read() yields done
RelayDone(i) ==
    /\ pc = "pair"
    /\ ~pair[i].done
    /\ pair[i].pos = Len(pair[i].body)
    /\ LET me == own(pair, i)
       IN  pair' = [pair EXCEPT ![i] =
                      [@ EXCEPT !.res = onDone(variant, me.res, me.buffer),
                                !.done = TRUE]]
    /\ UNCHANGED <<req, gen, variant, pc, upstream, status, body, pos, pending, buffer,
                   res, reply, obs>>

NextPair ==
    \/ \E i \in Relays : RelayRead(i)
    \/ \E i \in Relays : RelayDone(i)

SpecPair == InitPair /\ [][NextPair]_vars

(***************************************************************************)
(* JavaScript values of a request body field, and the operations the       *)
(* handlers apply to max_tokens                                            *)
(***************************************************************************)
Undefined == [t |-> "absent"]
Null == [t |-> "null"]
NaN == [t |-> "nan"]
Infinity == [t |-> "inf"]
Num(n) == [t |-> "num", n |-> n]
Str(s) == [t |-> "str", s |-> s]
Bool(b) == [t |-> "bool", b |-> b]
Obj == [t |-> "obj"]

\* what JSON.parse can put in max_tokens; 1e999 is parsed to Infinity
MaxTokensValues ==
    {Undefined, Null, Infinity, Obj, Bool(TRUE), Bool(FALSE)}
    \cup {Num(n) : n \in {-1, 0, 1, 499, 500, 501, 900}}
    \cup {Str(s) : s \in {"", "100", "900", "abc"}}

\* ToBoolean
Truthy(v) ==
    CASE v.t \in {"absent", "null", "nan"} -> FALSE
      [] v.t = "num"  -> v.n # 0
      [] v.t = "str"  -> v.s # ""
      [] v.t = "bool" -> v.b
      [] OTHER        -> TRUE

\* a || b
OrElse(a, b) == IF Truthy(a) THEN a ELSE b

\* a ?? b
Coalesce(a, b) == IF a.t \in {"absent", "null"} THEN b ELSE a

\* ToNumber
ToNumber(v) ==
    CASE v.t \in {"num", "inf", "nan"} -> v
      [] v.t = "null" -> Num(0)
      [] v.t = "bool" -> IF v.b THEN Num(1) ELSE Num(0)
      [] v.t = "str"  -> (CASE v.s = ""    -> Num(0)
                            [] v.s = "100" -> Num(100)
                            [] v.s = "900" -> Num(900)
                            [] OTHER       -> NaN)
      [] OTHER        -> NaN

\* Math.max(a, b)
MathMax(a, b) ==
    LET x == ToNumber(a)
        y == ToNumber(b)
    IN  IF x.t = "nan" \/ y.t = "nan" THEN NaN
        ELSE IF x.t = "inf" \/ y.t = "inf" THEN Infinity
        ELSE IF x.n >= y.n THEN x ELSE y

\* the value JSON.stringify writes for a member: NaN and Infinity become
\* null, undefined leaves the member out
JSONstringify(v) == IF v.t \in {"nan", "inf"} THEN Null ELSE v

(***************************************************************************)
(* The non-streaming generate handlers                                     *)
(*   "part001"  : src/unnamed/part_001                                     *)
(*   "generate" : src/api/generate.js, second handler                      *)
(***************************************************************************)
MinTokens == 500
DefaultTokens == 500
DefaultTokensGenerate == 300

GenHandlers == {"part001", "generate"}

Methods == {"OPTIONS", "GET", "POST", "PUT"}

\* prompt: not given, "", a non-empty string, a number such as 5;
\* alt: the body has a non-empty `text` or `message`
Requests ==
    [method : Methods, prompt : {"absent", "empty", "string", "number"},
     alt : BOOLEAN, key : BOOLEAN, max_tokens : MaxTokensValues]

Response(st, ok, text) == [status |-> st, ok |-> ok, reply |-> text]

Pass == Response(0, "none", <<>>)

\* req.body?.prompt ?? req.body?.text ?? req.body?.message
promptGenerate(r) ==
    IF r.prompt = "absent" /\ r.alt THEN "string" ELSE r.prompt

\* the tests of part_001 before the upstream call
validate001(r) ==
    IF r.method = "OPTIONS" THEN Response(200, "none", <<>>)
    ELSE IF r.method = "GET" THEN Response(200, "true", <<>>)
    ELSE IF r.method # "POST" THEN Response(405, "none", <<>>)
    ELSE IF r.prompt \in {"absent", "empty"} THEN Response(400, "none", <<>>)
    ELSE IF ~r.key THEN Response(500, "none", <<>>)
    ELSE Pass

\* the tests of generate.js before the upstream call
validateGenerate(r) ==
    IF r.method = "OPTIONS" THEN Response(200, "none", <<>>)
    ELSE IF r.method = "GET" THEN Response(200, "true", <<>>)
    ELSE IF r.method # "POST" THEN Response(405, "false", <<>>)
    ELSE IF promptGenerate(r) # "string" THEN Response(400, "false", <<>>)
    ELSE IF ~r.key THEN Response(500, "false", <<>>)
    ELSE Pass

\* maxOutputTokens as part_001 writes it into the upstream request
maxOutputTokens001(r) ==
    LET requestedTokens == OrElse(r.max_tokens, Num(DefaultTokens))
        maxTokens == MathMax(Num(MinTokens), requestedTokens)
    IN  JSONstringify(maxTokens)

\* maxOutputTokens as generate.js writes it into the upstream request
maxOutputTokensGenerate(r) ==
    JSONstringify(Coalesce(r.max_tokens, Num(DefaultTokensGenerate)))

\* the upstream reply: candidates and candidates[0].content.parts are
\* absent, empty or have an element; parts[0].text is absent, "", blank,
\* a text (padded with blanks or not) or a number
GenTexts == {"absent", "empty", "blank", "padded", "plain", "number"}

GenData ==
    {d \in [cand : {"absent", "empty", "one"},
            parts : {"absent", "empty", "one"},
            text : GenTexts,
            finish : {"none", "STOP", "MAX_TOKENS", "SAFETY"}] :
        /\ d.cand # "one" => (d.parts = "absent" /\ d.finish = "none")
        /\ d.parts # "one" => d.text = "absent"}

TextOf(t) ==
    CASE t = "blank"  -> <<SP, SP>>
      [] t = "padded" -> <<SP, "H", "i", SP>>
      [] t = "plain"  -> <<"H", "i">>
      [] OTHER        -> <<>>

NoData == [cand |-> "absent", parts |-> "absent", text |-> "absent",
           finish |-> "none"]

NewGen(h) ==
    [handler |-> h, pc |-> "request", sent |-> <<>>, called |-> FALSE,
     forwarded |-> Undefined, upOk |-> FALSE, upStatus |-> 0,
     replied |-> FALSE, data |-> NoData]

send(g, response) ==
    [g EXCEPT !.pc = "returned", !.sent = Append(@, response)]

\* part_001 after its awaits: response.json() resolved with d
reply001(g, d) ==
    IF ~g.upOk THEN send(g, Response(502, "false", <<>>))
    ELSE IF d.text \in {"absent", "empty"}
    THEN send(g, Response(502, "false", <<>>))
    \* reply.substring is not a function: the catch block answers
    ELSE IF d.text = "number" THEN send(g, Response(500, "false", <<>>))
    ELSE send(g, Response(200, "true", Trim(TextOf(d.text))))

\* generate.js without its test of finishReason
replyGenerate_NoSafetyTest(g, d) ==
    IF ~g.upOk THEN send(g, Response(g.upStatus, "false", <<>>))
    ELSE IF d.cand # "one" THEN send(g, Response(500, "false", <<>>))
    ELSE IF d.parts # "one" THEN send(g, Response(500, "false", <<>>))
    ELSE IF d.text \in {"absent", "empty"}
    THEN send(g, Response(500, "false", <<>>))
    ELSE IF d.text = "number" THEN send(g, Response(500, "false", <<>>))
    ELSE IF Trim(TextOf(d.text)) = <<>>
    THEN send(g, Response(500, "false", <<>>))
    ELSE send(g, Response(200, "true", Trim(TextOf(d.text))))

\* generate.js after its awaits: geminiResponse.json() resolved with d
replyGenerate(g, d) ==
    IF ~g.upOk THEN send(g, Response(g.upStatus, "false", <<>>))
    ELSE IF d.cand # "one" THEN send(g, Response(500, "false", <<>>))
    ELSE IF d.parts # "one" THEN send(g, Response(500, "false", <<>>))
    ELSE IF d.text \in {"absent", "empty"}
    THEN send(g, Response(500, "false", <<>>))
    \* reply.trim is not a function: the catch block answers
    ELSE IF d.text = "number" THEN send(g, Response(500, "false", <<>>))
    ELSE IF Trim(TextOf(d.text)) = <<>>
    THEN send(g, Response(500, "false", <<>>))
    ELSE IF d.finish = "SAFETY" THEN send(g, Response(400, "false", <<>>))
    ELSE send(g, Response(200, "true", Trim(TextOf(d.text))))

(***************************************************************************)
(* The streaming handlers from their entry: request validation             *)
(***************************************************************************)
\* the tests of part_000 before the event-stream headers
validate000(r) ==
    IF r.method = "OPTIONS" THEN Response(200, "none", <<>>)
    ELSE IF r.method = "GET" THEN Response(200, "true", <<>>)
    ELSE IF r.method # "POST" THEN Response(405, "false", <<>>)
    ELSE IF promptGenerate(r) # "string" THEN Response(400, "false", <<>>)
    ELSE IF ~r.key THEN Response(500, "false", <<>>)
    ELSE Pass

\* the tests of stream.js with the test of the API key left out
validateStream_NoKeyTest(r) ==
    IF r.method = "OPTIONS" THEN Response(200, "none", <<>>)
    ELSE IF r.method # "POST" THEN Response(405, "none", <<>>)
    ELSE IF r.prompt \in {"absent", "empty"} THEN Response(400, "none", <<>>)
    ELSE Pass

\* the tests of stream.js before the event-stream headers (the same tests,
\* in the same order, in the edge handler)
validateStream(r) ==
    IF r.method = "OPTIONS" THEN Response(200, "none", <<>>)
    ELSE IF r.method # "POST" THEN Response(405, "none", <<>>)
    ELSE IF r.prompt \in {"absent", "empty"} THEN Response(400, "none", <<>>)
    ELSE IF ~r.key THEN Response(500, "none", <<>>)
    ELSE Pass

\* res.status(...).json(...) or res.status(200).end()
resJson(r, response) ==
    [r EXCEPT !.plain = Append(@, response), !.writableEnded = TRUE,
              !.endCalls = @ + 1]

StreamRequests == {r \in Requests : r.max_tokens = Undefined}

RequestBodies == BodiesOf({DataLine("H")}, 1)

InitRequest ==
    /\ variant \in Variants
    /\ body \in RequestBodies
    /\ pc = "request"
    /\ upstream = "none"
    /\ status = 0
    /\ pos = 0
    /\ pending = <<>>
    /\ buffer = <<>>
    /\ res = NewRes
    /\ reply = "none"
    /\ obs = NewObs
    /\ pair = NoPair
    /\ req \in StreamRequests
    /\ gen = NoGen

\* the handler runs from its entry to a plain response or to the upstream
\* call; in the edge handler await req.json() may reject on the way
Validate ==
    /\ pc = "request"
    /\ \E parsed \in BOOLEAN :
         LET v == IF variant = "part000" THEN validate000(req)
                  ELSE validateStream(req)
         IN  IF variant = "edge" /\ req.method = "POST" /\ ~parsed
             THEN /\ pc' = "returned"
                  /\ reply' = "json500"
                  /\ res' = catchEdge(res, "bad body")
                  /\ UNCHANGED upstream
             ELSE IF v # Pass
             THEN /\ pc' = "returned"
                  /\ reply' = "plain"
                  /\ res' = resJson(res, v)
                  /\ UNCHANGED upstream
             ELSE /\ pc' = "fetch"
                  /\ reply' = IF variant \in Node THEN "sse" ELSE "none"
                  /\ upstream' = "pending"
                  /\ UNCHANGED res
    /\ UNCHANGED <<variant, status, body, pos, pending, buffer, obs, pair, req,
                   gen>>

NextRequest ==
    \/ Validate
    \/ Next

SpecRequest == InitRequest /\ [][NextRequest]_vars

InitGenerate ==
    /\ variant = "part000"
    /\ pc = "off"
    /\ upstream = "pending"
    /\ status = 0
    /\ body = <<>>
    /\ pos = 0
    /\ pending = <<>>
    /\ buffer = <<>>
    /\ res = NewRes
    /\ reply = "none"
    /\ obs = NewObs
    /\ pair = NoPair
    /\ req \in Requests
    /\ gen \in {NewGen(h) : h \in GenHandlers}

GenUnchanged ==
    UNCHANGED <<variant, pc, upstream, status, body, pos, pending, buffer, res,
                reply, obs, pair, req>>

\* the handler runs from its entry to its first await or return
GenValidate ==
    /\ gen.pc = "request"
    /\ LET v == IF gen.handler = "part001" THEN validate001(req)
                ELSE validateGenerate(req)
       IN  IF v # Pass THEN gen' = send(gen, v)
           \* part_001: prompt.substring is not a function, outside the try
           ELSE IF gen.handler = "part001" /\ req.prompt = "number"
           THEN gen' = [gen EXCEPT !.pc = "crashed"]
           ELSE gen' = [gen EXCEPT
                          !.pc = "fetch",
                          !.called = TRUE,
                          !.forwarded =
                              IF gen.handler = "part001"
                              THEN maxOutputTokens001(req)
                              ELSE maxOutputTokensGenerate(req)]
    /\ GenUnchanged

\* await fetch(...) resolves
GenFetchResolves ==
    /\ gen.pc = "fetch"
    /\ \E ok \in BOOLEAN :
         gen' = [gen EXCEPT !.pc = "body", !.upOk = ok,
                            !.upStatus = IF ok THEN 200 ELSE 503]
    /\ GenUnchanged

\* await fetch(...) rejects: the catch block answers
GenFetchThrows ==
    /\ gen.pc = "fetch"
    /\ gen' = send(gen, Response(500, "false", <<>>))
    /\ GenUnchanged

\* the body of the upstream response has been read
GenBody ==
    /\ gen.pc = "body"
    /\ \E d \in GenData :
         LET g == [gen EXCEPT !.replied = TRUE, !.data = d]
         IN  gen' = IF gen.handler = "part001" THEN reply001(g, d)
                    ELSE replyGenerate(g, d)
    /\ GenUnchanged

\* await response.json() rejects: the catch block answers
GenBodyThrows ==
    /\ gen.pc = "body"
    /\ gen.handler = "part001" \/ gen.upOk
    /\ gen' = send(gen, Response(500, "false", <<>>))
    /\ GenUnchanged

NextGenerate ==
    \/ GenValidate
    \/ GenFetchResolves
    \/ GenFetchThrows
    \/ GenBody
    \/ GenBodyThrows

SpecGenerate == InitGenerate /\ [][NextGenerate]_vars

(***************************************************************************)
(* Properties                                                              *)
(***************************************************************************)
CountKind(out, k) == Cardinality({i \in 1..Len(out) : out[i].kind = k})

Kinds(out) == [i \in 1..Len(out) |-> out[i].kind]

Returned == pc = "returned"

\* C1: in the Node handlers, a finished relay operation has written the
\* terminal marker `data: [DONE]` exactly once, whatever the exit path.
C1_ExactlyOneDone ==
    (variant \in Node /\ Returned) => CountKind(res.out, "done") = 1

\* C2: in the Node handlers res.end() is called at most once, the connection
\* is open while the handler runs, and when the handler has returned (by any
\* exit path) the connection is ended by exactly one res.end().
C2_ClosedExactlyOnce ==
    variant \in Node =>
        /\ res.endCalls <= 1
        /\ res.writableEnded <=> (res.endCalls = 1)
        /\ Returned <=> res.writableEnded

\* C2 witness: part_000 has returned through the non-success path, where
\* res.end() is called before the finally block runs.
C2_Witness ==
    /\ variant = "part000"
    /\ Returned
    /\ obs.exit = "notok"
    /\ res.writableEnded
    /\ res.endCalls = 1

\* C3: in the Node handlers no frame is handed to res.write after res.end():
\* every write happens while the connection is open.
C3_NoWriteAfterClose ==
    variant \in Node => res.lateWrites = 0

\* C3 witness: stream.js has finished normally, having written frames and
\* then ended the response.
C3_Witness ==
    /\ variant = "stream"
    /\ Returned
    /\ obs.exit = "done"
    /\ res.writableEnded
    /\ Len(res.out) >= 2
    /\ res.lateWrites = 0

\* C4: in the Node handlers no token frame and no error frame follows a
\* terminal marker in the downstream output.
C4_NothingAfterDone ==
    variant \in Node =>
        \A i, j \in 1..Len(res.out) :
            (i < j /\ res.out[i].kind = "done") => res.out[j].kind = "done"

\* C5: in the Node handlers, after a terminal event (finish indicator or
\* error object) has been extracted, no further line is processed and no
\* further chunk is read.
C5_StopsAtTerminal ==
    variant \in Node => ~obs.after

\* C6: upstream "Hi", then " there" with finishReason STOP, then end of
\* stream: the downstream output is exactly token "Hi", token " there", DONE.
C6_HiThereDone ==
    ( /\ variant \in Node
      /\ body = Encode(JoinNL(<<DataLine("H"), DataLine("T")>>))
      /\ Returned
      /\ obs.exit = "done" )
    => res.out = <<TokenFrame("Hi"), TokenFrame(" there"), DoneFrame>>

\* C7: upstream payload with finishReason SAFETY and no text, then end of
\* stream: the downstream output holds exactly one error frame, carrying the
\* safety indicator, followed by exactly one DONE.
C7_SafetyThenDone ==
    ( /\ variant \in Node
      /\ body = Encode(JoinNL(<<DataLine("F")>>))
      /\ Returned
      /\ obs.exit = "done" )
    => /\ CountKind(res.out, "error") = 1
       /\ CountKind(res.out, "done") = 1
       /\ \E i, j \in 1..Len(res.out) :
            /\ i < j
            /\ res.out[i].kind = "error" /\ res.out[i].safety
            /\ res.out[j].kind = "done"

\* C8: when the upstream call fails before any body is read (non-success
\* status, or the fetch rejects), the Node handlers never enter Streaming
\* (no chunk read, no token frame) and, once returned, have written exactly
\* one error frame, then exactly one DONE, and closed the connection.
C8_UpstreamCallFailure ==
    (variant \in Node /\ upstream \in {"notok", "neterr"}) =>
        /\ pos = 0
        /\ ~obs.entered
        /\ CountKind(res.out, "token") = 0
        /\ ~Returned => res.out = <<>>
        /\ Returned =>
             /\ Kinds(res.out) = <<"error", "done">>
             /\ res.writableEnded
             /\ res.endCalls = 1

\* C8 witness: stream.js got HTTP 503 and has returned.
C8_Witness ==
    /\ variant = "stream"
    /\ upstream = "notok"
    /\ status = 503
    /\ Returned
    /\ res.out = <<ErrorFrame("Gemini error: 503"), DoneFrame>>

\* C9: in the Node handlers, however the bytes read so far were cut into
\* chunks, the lines handed to the decoder and the text (and bytes) held back
\* are those obtained by decoding and splitting the same bytes as one chunk.
C9_ChunkBoundaryInvariance ==
    variant \in Node =>
        LET whole == DecodeFrom(SubSeq(body, 1, pos), <<>>, TRUE)
            lines == Split(whole.text)
        IN  /\ obs.seen = Front(lines)
            /\ buffer = Last(lines)
            /\ pending = whole.held

\* C9 witness: a line was completed from text held back from an earlier
\* chunk, and the last chunk again ended inside a line.
C9_Witness ==
    /\ variant \in Node
    /\ obs.joined
    /\ obs.seen # <<>>
    /\ buffer # <<>>

\* C10: in the edge handler, when the whole body has been piped through, the
\* frames enqueued are those of the same body arriving as one chunk, however
\* the body was cut (a data line split across two chunks loses nothing).
C10_EdgeSplitLine ==
    (variant = "edge" /\ Returned /\ obs.exit = "done") =>
        res.out = transform(NewRes, body).out

\* bodies made only of data lines whose payload is not valid JSON
BadJsonBodies == BodiesOf({JunkLine, DoneLine}, MaxLines)

\* C11: while a handler is streaming a body made only of data lines whose
\* payload is not valid JSON, it has written no frame downstream (each such
\* line is dropped and the relay goes on).
C11_BadJsonDropped ==
    (body \in BadJsonBodies /\ pc = "read") => res.out = <<>>

\* one terminated data line whose payload has a text and a finish indicator
MixedBodies == {Encode(DataLine(p) \o <<NL>>) : p \in MixedSyms}

\* C12: when a Node handler has read the whole of a data line whose payload
\* has both a non-empty text and a finish indicator, it has written the
\* token frame first and a terminal or error frame after it.
C12_TokenThenTerminal ==
    (/\ variant \in Node
     /\ body \in MixedBodies
     /\ pc = "read"
     /\ pos = Len(body)) =>
        /\ Len(res.out) >= 2
        /\ res.out[1].kind = "token"
        /\ res.out[2].kind \in {"done", "error"}

\* the response of a Node handler to which the bytes b arrive as one chunk
\* before the end of the stream
runWhole(v, b) ==
    LET lines == Split(DecodeFrom(b, <<>>, TRUE).text)
    IN  onDone(v, processLines(v, NewRes, Front(lines)), nextBuffer(lines))

\* C13: when the upstream is exhausted with a non-empty unterminated line in
\* the buffer, the frames written are those the handler writes when the same
\* line is ended by a newline before the end of the stream.
C13_FlushLikeTerminated ==
    (/\ variant \in Node
     /\ Returned
     /\ obs.exit = "done"
     /\ Trim(buffer) # <<>>) =>
        res.out = runWhole(variant, body \o <<NL>>).out

\* the texts of the token frames of out, in order
RECURSIVE TokenTexts(_)
TokenTexts(out) ==
    IF out = <<>> THEN <<>>
    ELSE (IF Head(out).kind = "token" THEN <<Head(out).text>> ELSE <<>>)
         \o TokenTexts(Tail(out))

\* the non-empty candidate-0 texts of the valid data lines among lines
RECURSIVE CandidateTexts(_)
CandidateTexts(lines) ==
    IF lines = <<>> THEN <<>>
    ELSE LET d == decode(Head(lines))
         IN  (IF /\ d.kind = "payload"
                 /\ d.value.hasCand
                 /\ d.value.hasParts0
                 /\ d.value.text # ""
              THEN <<d.value.text>> ELSE <<>>)
             \o CandidateTexts(Tail(lines))

C15_ErrorThenDoneThenClose ==
    (/\ variant \in Node
     /\ Returned
     /\ obs.entered
     /\ obs.exit = "exception") =>
        /\ Len(res.out) >= 2
        /\ res.out[Len(res.out) - 1].kind = "error"
        /\ ~res.out[Len(res.out) - 1].safety
        /\ res.out[Len(res.out)] = DoneFrame
        /\ res.writableEnded
        /\ res.endCalls = 1

\* a read failed after a token had been relayed
C15_Witness ==
    /\ variant \in Node
    /\ Returned
    /\ obs.entered
    /\ obs.exit = "exception"
    /\ Len(res.out) >= 3
    /\ res.out[1].kind = "token"

\* C16: once the client has gone away while a Node handler is streaming, the
\* handler reads no further chunk from the upstream and attempts no further
\* write to the response.
C16_StopsOnDisconnect ==
    [][(pc = "read" /\ res.sink = "gone") =>
         /\ pos' = pos
         /\ res'.lostWrites = res.lostWrites]_vars

\* C17: a Node handler that has returned has closed the connection, also
\* when a write to the response raised an error on the way.
C17_ClosedEvenIfWriteFails ==
    (variant \in Node /\ Returned) => res.writableEnded

\* bodies made only of lines the decoder does not consider
IgnoredBodies ==
    BodiesOf({EmptyDataLine, EventLine, CommentLine, <<>>}, MaxLines)

\* C18: while a handler is streaming a body made only of blank lines,
\* comment lines, `event:` lines and `data:` lines with an empty payload, it
\* has written no frame downstream.
C18_OtherLinesIgnored ==
    (body \in IgnoredBodies /\ pc = "read") => res.out = <<>>

NullLine == DataPrefix \o NullLiteral

\* bodies whose payloads have none of text, finish indicator and error object
SilentBodies ==
    BodiesOf({DataLine(p) : p \in ShapeSyms \ {"N"}} \cup {NullLine},
             MaxShapeLines)

\* C19: in the Node handlers no exception raised by a payload with absent
\* fields reaches the catch block (no error frame for a TypeError is ever
\* written), and while a body whose payloads have none of text, finish
\* indicator and error object is being streamed nothing has been written.
C19_NoThrowOnMissingFields ==
    variant \in Node =>
        /\ \A i \in 1..Len(res.out) : res.out[i] # ErrorFrame("TypeError")
        /\ (body \in SilentBodies /\ pc = "read") => res.out = <<>>

\* stream.js has processed the payload null and is still streaming
C19_Witness ==
    /\ variant = "stream"
    /\ body = Encode(NullLine \o <<NL>>)
    /\ pc = "read"
    /\ pos = Len(body)
    /\ obs.seen = <<NullLine>>
    /\ res.out = <<>>

\* the response of a Node handler that serves alone the first n bytes of b
aloneSoFar(v, b, n) ==
    processLines(v, NewRes,
                 Front(Split(DecodeFrom(SubSeq(b, 1, n), <<>>, TRUE).text)))

\* C20: of two relay operations served concurrently, each has written, at
\* every point of every interleaving, the frames it writes when it serves
\* its own upstream alone, and has closed its own connection exactly when
\* it has finished.
C20_RelaysIndependent ==
    pc = "pair" =>
        \A i \in Relays :
            IF pair[i].done
            THEN /\ pair[i].res.out = runWhole(variant, pair[i].body).out
                 /\ pair[i].res.endCalls = 1
            ELSE /\ pair[i].res.out =
                        aloneSoFar(variant, pair[i].body, pair[i].pos).out
                 /\ pair[i].res.endCalls = 0

\* one relay has finished while the other, on another upstream, is in the
\* middle of a line
C20_Witness ==
    /\ pc = "pair"
    /\ pair[1].done
    /\ ~pair[2].done
    /\ pair[1].body # pair[2].body
    /\ pair[2].buffer # <<>>
    /\ pair[2].res.out # <<>>

\* C21: whenever part_001 has issued the upstream call, the maxOutputTokens
\* it forwarded is a number not less than 500, and it is the requested
\* value when that is a number above 500.
C21_AtLeast500 ==
    (gen.pc # "off" /\ gen.handler = "part001" /\ gen.called) =>
        /\ gen.forwarded.t = "num"
        /\ gen.forwarded.n >= MinTokens
        /\ (req.max_tokens.t = "num" /\ req.max_tokens.n > MinTokens) =>
               gen.forwarded = req.max_tokens

\* the requests of the claim: not a POST (OPTIONS, GET, any other method),
\* no prompt, or no API key configured
Refused(r) ==
    \/ r.method # "POST"
    \/ r.prompt \in {"absent", "empty"} /\ ~r.alt
    \/ ~r.key

\* C22: for a refused request a Node streaming handler never sets the
\* event-stream headers, never issues the upstream call and writes no SSE
\* frame; it sends at most one plain response, and exactly one when it has
\* returned.
C22_ValidationBeforeStreaming ==
    (variant \in Node /\ Refused(req)) =>
        /\ reply # "sse"
        /\ upstream = "none"
        /\ res.out = <<>>
        /\ res.lateWrites = 0
        /\ Len(res.plain) <= 1
        /\ res.endCalls = Len(res.plain)
        /\ Returned <=> Len(res.plain) = 1

\* a POST with a prompt has been refused for want of an API key
C22_Witness ==
    /\ variant \in Node
    /\ req.method = "POST"
    /\ req.prompt = "string"
    /\ ~req.key
    /\ Returned
    /\ Len(res.plain) = 1
    /\ res.plain[1].status = 500

\* C23: in the edge handler, once the upstream call has failed (a status
\* that is not a success, or an exception of fetch or of reading the body)
\* no event stream is returned and no frame is enqueued; when the handler
\* has returned, it has sent one JSON response with status 500 that carries
\* the error message.
C23_EdgeFailureIsJson ==
    (variant = "edge" /\ upstream \in {"notok", "neterr"}) =>
        /\ reply # "sse"
        /\ res.out = <<>>
        /\ Returned =>
               /\ reply = "json500"
               /\ Len(res.plain) = 1
               /\ res.plain[1].status = 500
               /\ res.plain[1].error =
                      (IF upstream = "neterr" THEN "fetch failed"
                       ELSE IF obs.exit = "exception" THEN "body failed"
                       ELSE IF status = 503 THEN "Gemini API error: 503"
                       ELSE "Gemini API error: 429")

\* the upstream answered 429 and the edge handler has returned
C23_Witness ==
    /\ variant = "edge"
    /\ upstream = "notok"
    /\ status = 429
    /\ obs.exit = "notok"
    /\ Returned
    /\ reply = "json500"

\* C24: the non-streaming handler of generate.js sends at most one response,
\* and exactly one when it has returned; when the upstream reply has
\* finishReason SAFETY, with or without text, that response has ok: false;
\* after an upstream call a response with ok: true is sent only for a reply
\* whose text is not blank and whose finish reason is not SAFETY.
C24_SafetyNeverSuccess ==
    (gen.pc # "off" /\ gen.handler = "generate") =>
        /\ Len(gen.sent) <= 1
        /\ (gen.pc = "returned") <=> (Len(gen.sent) = 1)
        /\ (gen.replied /\ gen.data.finish = "SAFETY") =>
               gen.sent[1].ok = "false"
        /\ (gen.called /\ gen.pc = "returned" /\ gen.sent[1].ok = "true") =>
               /\ gen.replied
               /\ gen.upOk
               /\ gen.data.text \in {"padded", "plain"}
               /\ gen.data.finish # "SAFETY"
               /\ gen.sent[1].reply = <<"H", "i">>

\* the upstream answered 200 with a text and finishReason SAFETY
C24_Witness ==
    /\ gen.pc = "returned"
    /\ gen.handler = "generate"
    /\ gen.upOk
    /\ gen.replied
    /\ gen.data.text = "plain"
    /\ gen.data.finish = "SAFETY"
    /\ gen.sent = <<Response(400, "false", <<>>)>>

=============================================================================
